---- MODULE Spec2Model ----
(***************************************************************************)
(* A model of relock.js: generateDependencyTree (the tree builder),        *)
(* relockTree (the differ) and flattenTree (the hoister).                  *)
(*                                                                         *)
(* JavaScript values are represented as follows.                           *)
(*   - A '|'-joined path string is the sequence of its names; the empty    *)
(*     string '' is the empty sequence.  Split turns the string back into  *)
(*     an array, and ''.split('|') is [''], not [].                        *)
(*   - An object used as a map with ordered keys (requires) is a sequence  *)
(*     of <<key, value>> pairs in insertion order.                         *)
(*   - undefined is the value Undefined.                                   *)
(*   - A semver range string is the sequence of its characters.            *)
(***************************************************************************)
EXTENDS Naturals, Integers, Sequences, FiniteSets, TLC

VARIABLES
    pc,           \* position of the run: which function is active / finished
    lock,         \* generateDependencyTree: the lock file, lock-path -> entry
    stack,        \* generateDependencyTree: stack of lock-paths being expanded
    processed,    \* generateDependencyTree: memo, lock-path -> dependencies
    frames,       \* generateDependencyTree: activations of the recursive one()
    tree,         \* generateDependencyTree: the returned canonical tree
    projectFiles, \* config.projectFiles: the project-module patterns
    prevTree,     \* relockTree: the previous canonical tree
    curTree,      \* relockTree: the current canonical tree
    relockTree,   \* relockTree: the mixed tree being built
    rframes,      \* relockTree: activations of the recursive one()
    compared,     \* relockTree: the paths one() was called on
    mixed,        \* flattenTree: the tree to hoist (its parameter tree)
    modules,      \* flattenTree: the variants found, sorted for hoisting
    flatTree,     \* flattenTree: the placement tree
    moduleIdx,    \* hoist: index of the module hoistOne is called for
    pathIdx,      \* hoistOne: index of the path add is called for
    flatSearchPath, \* add: searchPath, the part of the path not consumed yet
    flatNode      \* add: the placement node looked at, as its placement path

treeVars == <<lock, stack, processed, frames, tree>>
relockVars == <<projectFiles, prevTree, curTree, relockTree, rframes, compared>>
flatVars == <<mixed, modules, flatTree, moduleIdx, pathIdx, flatSearchPath, flatNode>>
vars == <<pc, treeVars, relockVars, flatVars>>

Undefined == [undefined |-> TRUE]
\* no lock entry: what a lookup that yields undefined would return
NoEntry == <<"undefined", "">>

----------------------------------------------------------------------------
(* Bounds of the inputs *)

Names == {"a", "b"}

\* largest number of lock entries (the root excluded) in an input lock file;
\* entries nest, so this is also the deepest nesting
MaxEntries == 2

R120 == <<"^", "1", ".", "2", ".", "0">>
R125 == <<"^", "1", ".", "2", ".", "5">>
R130 == <<"^", "1", ".", "3", ".", "0">>
T120 == <<"~", "1", ".", "2", ".", "0">>
\* a range of a major version only, and the empty range (any version)
R1 == <<"^", "1">>
Empty == <<>>

----------------------------------------------------------------------------
(* Generic helpers for arrays and ordered maps *)

Front(s) == SubSeq(s, 1, Len(s) - 1)
Last(s) == s[Len(s)]
Range(s) == {s[i] : i \in 1..Len(s)}

\* Array.prototype.indexOf(x) !== -1
Includes(s, x) == \E i \in 1..Len(s) : s[i] = x

\* Object.keys(obj)
Keys(obj) == [i \in 1..Len(obj) |-> obj[i][1]]
\* obj[key]
Get(obj, key) ==
    IF \E i \in 1..Len(obj) : obj[i][1] = key
    THEN obj[CHOOSE i \in 1..Len(obj) : obj[i][1] = key][2]
    ELSE Undefined

\* str.split('|') of a joined path
Split(str) == IF str = <<>> THEN <<"">> ELSE str

----------------------------------------------------------------------------
(* generateDependencyTree *)

\* buildPaths(root): every lock-path of the lock file, '' included
buildPaths(root) == DOMAIN root

RECURSIVE searchLockPath(_, _, _)
searchLockPath(root, searchPath, name) ==
    LET check == Append(searchPath, name)
    IN  IF check \in buildPaths(root) THEN check
        ELSE IF Len(searchPath) = 0 THEN <<>>
        ELSE searchLockPath(root, Front(searchPath), name)

getLockPath(root, path, name) ==
    IF Len(path) = 0 /\ name = "" THEN <<>>
    ELSE searchLockPath(root, path, name)

\* getNode(path): the lock entry reached, as its lock-path; a missing part is
\* logged and skipped
RECURSIVE walkLock(_, _, _)
walkLock(root, node, path) ==
    IF path = <<>> THEN node
    ELSE IF Append(node, Head(path)) \in DOMAIN root
         THEN walkLock(root, Append(node, Head(path)), Tail(path))
         ELSE walkLock(root, node, Tail(path))

getNode(root, path) == walkLock(root, <<>>, path)

find(root, name, path) ==
    IF name = "" /\ Len(path) = 0 THEN <<>>
    ELSE getNode(root, Split(getLockPath(root, path, name)))

getTreeSignature(deps) == <<"md5", deps>>

\* the node built for one requires entry (lines 212-222)
MakeNode(root, name, match, semVer, nodeDependencies) ==
    [name |-> name,
     version |-> root[match].version,
     semVer |-> semVer,
     tag |-> <<name, "@", root[match].version>>,
     requires |-> root[match].requires,
     signature |-> getTreeSignature(nodeDependencies),
     dependencies |-> nodeDependencies]

\* the root node built after one([]) (lines 237-248)
MakeRoot(root, result) ==
    [requires |-> root[<<>>].requires,
     dependencies |-> result,
     name |-> "",
     version |-> root[<<>>].version,
     signature |-> getTreeSignature(result)]

\* the head of one(path): name and lockOnePath
oneName(path) == IF path = <<>> THEN "" ELSE Last(path)
oneLockPath(root, path) ==
    getLockPath(root, IF path = <<>> THEN <<>> ELSE Front(path), oneName(path))

lockPaths == buildPaths(lock)

\* the requirement the top activation is at
Top == frames[Len(frames)]
TopKeys == Keys(lock[Top.lockNode].requires)
AtKey == pc = "tree" /\ frames # <<>> /\ Top.idx <= Len(TopKeys)
curName == TopKeys[Top.idx]
curSemVer == lock[Top.lockNode].requires[Top.idx][2]
curRealPath == getLockPath(lock, Top.path, curName)
curMatch == find(lock, curName, Top.path)
curDepPath == Split(curRealPath)
curLockOnePath == oneLockPath(lock, curDepPath)

\* the circular-reference check left out
OnStackNever(lockOnePath) == FALSE

\* stack.indexOf(lockOnePath) !== -1
OnStack(lockOnePath) == Includes(stack, lockOnePath)

PushDependency(node) ==
    frames' = [frames EXCEPT ![Len(frames)].dependencies = Append(@, node),
                             ![Len(frames)].idx = @ + 1]

\* generateDependencyTree(root) calls one([]): the root is pushed and expanded
CanRoot == pc = "start"

OneRoot ==
    /\ CanRoot
    /\ pc' = "tree"
    /\ stack' = <<oneLockPath(lock, <<>>)>>
    /\ frames' = <<[path |-> <<>>, lockOnePath |-> oneLockPath(lock, <<>>),
                    lockNode |-> find(lock, "", <<>>), idx |-> 1, dependencies |-> <<>>]>>
    /\ UNCHANGED <<lock, processed, tree>>
    /\ UNCHANGED <<relockVars, flatVars>>

\* a circular edge that is dropped: no node is built for it
OneCircularSkip ==
    /\ AtKey /\ curMatch # NoEntry /\ OnStack(curLockOnePath)
    /\ frames' = [frames EXCEPT ![Len(frames)].idx = @ + 1]
    /\ UNCHANGED <<pc, lock, stack, processed, tree>>
    /\ UNCHANGED <<relockVars, flatVars>>

\* one(depPath) finds its lock-path on the stack and returns []
CanCircular == AtKey /\ curMatch # NoEntry /\ OnStack(curLockOnePath)

OneCircular ==
    /\ CanCircular
    /\ PushDependency(MakeNode(lock, curName, curMatch, curSemVer, <<>>))
    /\ UNCHANGED <<pc, lock, stack, processed, tree>>
    /\ UNCHANGED <<relockVars, flatVars>>

\* one(depPath) finds its lock-path in processed and returns the memo
CanProcessed ==
    /\ AtKey /\ curMatch # NoEntry
    /\ ~OnStack(curLockOnePath)
    /\ curLockOnePath \in DOMAIN processed

OneProcessed ==
    /\ CanProcessed
    /\ PushDependency(MakeNode(lock, curName, curMatch, curSemVer,
                               processed[curLockOnePath]))
    /\ UNCHANGED <<pc, lock, stack, processed, tree>>
    /\ UNCHANGED <<relockVars, flatVars>>

\* one(depPath) pushes its lock-path and starts on its own requires
CanExpand ==
    /\ AtKey /\ curMatch # NoEntry
    /\ ~OnStack(curLockOnePath)
    /\ curLockOnePath \notin DOMAIN processed

OneExpand ==
    /\ CanExpand
    /\ stack' = Append(stack, curLockOnePath)
    /\ frames' = Append(frames,
                    [path |-> curDepPath, lockOnePath |-> curLockOnePath,
                     lockNode |-> find(lock, oneName(curDepPath), Front(curDepPath)),
                     idx |-> 1, dependencies |-> <<>>])
    /\ UNCHANGED <<pc, lock, processed, tree>>
    /\ UNCHANGED <<relockVars, flatVars>>

\* if (!match) throw new Error('required module ... not found in dependencies')
CanThrow == AtKey /\ curMatch = NoEntry

OneThrow ==
    /\ CanThrow
    /\ pc' = "error"
    /\ UNCHANGED <<lock, stack, processed, frames, tree>>
    /\ UNCHANGED <<relockVars, flatVars>>

\* the requires of a nested one() are done: pop, memoize, return to the caller,
\* which builds the node and pushes it
CanReturn == pc = "tree" /\ Len(frames) > 1 /\ Top.idx > Len(TopKeys)

OneReturn ==
    /\ CanReturn
    /\ stack' = Front(stack)
    /\ processed' = (Top.lockOnePath :> Top.dependencies) @@ processed
    /\ LET caller == frames[Len(frames) - 1]
           callerReq == lock[caller.lockNode].requires[caller.idx]
           node == MakeNode(lock, callerReq[1], find(lock, callerReq[1], caller.path),
                            callerReq[2], Top.dependencies)
       IN  frames' = [Front(frames) EXCEPT
                        ![Len(frames) - 1].dependencies = Append(@, node),
                        ![Len(frames) - 1].idx = @ + 1]
    /\ UNCHANGED <<pc, lock, tree>>
    /\ UNCHANGED <<relockVars, flatVars>>

\* one([]) returns: the root node is built and returned (lines 237-248)
CanFinish == pc = "tree" /\ Len(frames) = 1 /\ Top.idx > Len(TopKeys)

OneFinish ==
    /\ CanFinish
    /\ stack' = Front(stack)
    /\ processed' = (Top.lockOnePath :> Top.dependencies) @@ processed
    /\ frames' = <<>>
    /\ tree' = MakeRoot(lock, Top.dependencies)
    /\ pc' = "done"
    /\ UNCHANGED lock
    /\ UNCHANGED <<relockVars, flatVars>>

----------------------------------------------------------------------------
(* generateDependencyTree as a function of the lock file: the same recursion,
   run to completion, threading the stack and the memo *)

RECURSIVE oneRun(_, _, _, _)
RECURSIVE eachRequire(_, _, _, _, _, _)

\* one(path) with the stack stk and the memo proc: what it returns and the memo after
oneRun(root, path, stk, proc) ==
    LET lockOnePath == oneLockPath(root, path)
    IN  IF Includes(stk, lockOnePath)
        THEN [dependencies |-> <<>>, processed |-> proc]
        ELSE IF lockOnePath \in DOMAIN proc
        THEN [dependencies |-> proc[lockOnePath], processed |-> proc]
        ELSE LET r == eachRequire(root, path, 1, <<>>, Append(stk, lockOnePath), proc)
             IN  [dependencies |-> r.dependencies,
                  processed |-> (lockOnePath :> r.dependencies) @@ r.processed]

\* the forEach over lockNode.requires, from its idx-th key on
eachRequire(root, path, idx, dependencies, stk, proc) ==
    LET lockNode == find(root, oneName(path), IF path = <<>> THEN <<>> ELSE Front(path))
        requires == root[lockNode].requires
    IN  IF idx > Len(requires) THEN [dependencies |-> dependencies, processed |-> proc]
        ELSE LET name == requires[idx][1]
                 realPath == getLockPath(root, path, name)
                 match == find(root, name, path)
                 r == oneRun(root, Split(realPath), stk, proc)
                 node == MakeNode(root, name, match, requires[idx][2], r.dependencies)
             IN  eachRequire(root, path, idx + 1, Append(dependencies, node), stk, r.processed)

generateDependencyTree(root) ==
    MakeRoot(root, oneRun(root, <<>>, <<>>, <<>>).dependencies)

\* the stepwise run returns what the function computes
RunIsFunction == pc = "done" => tree = generateDependencyTree(lock)

----------------------------------------------------------------------------
(* Input lock files *)

RECURSIVE SeqsUpTo(_)
SeqsUpTo(n) ==
    IF n = 0 THEN {<<>>}
    ELSE LET S == SeqsUpTo(n - 1)
         IN  S \cup {Append(s, x) : s \in {t \in S : Len(t) = n - 1}, x \in Names}

PrefixClosed(S) == \A p \in S : p = <<>> \/ Front(p) \in S

\* requires maps over Names, in either key order
RequiresOver(ranges) ==
    {<<>>}
    \cup {<<<<n, r>>>> : n \in Names, r \in ranges}
    \cup {<<<<q[1], r>>, <<q[2], s>>>> :
             q \in {t \in Names \X Names : t[1] # t[2]}, r \in ranges, s \in ranges}

LockShapes ==
    {S \in SUBSET SeqsUpTo(MaxEntries) :
        /\ <<>> \in S
        /\ PrefixClosed(S)
        /\ Cardinality(S) <= MaxEntries + 1}

\* the version of a lock entry tells the entries apart: "v" followed by its lock-path
LockFiles ==
    UNION {{[p \in S |-> [version |-> <<"v">> \o p, requires |-> req[p]]] :
              req \in [S -> RequiresOver({R120})]} : S \in LockShapes}

\* the differ is not part of the run
IdleRelock ==
    /\ projectFiles = <<>>
    /\ prevTree = Undefined
    /\ curTree = Undefined
    /\ relockTree = Undefined
    /\ rframes = <<>>
    /\ compared = {}

\* the hoister is not part of the run
IdleFlat ==
    /\ mixed = Undefined
    /\ modules = <<>>
    /\ flatTree = Undefined
    /\ moduleIdx = 0
    /\ pathIdx = 0
    /\ flatSearchPath = <<>>
    /\ flatNode = <<>>

\* the tree builder is not part of the run
IdleTree ==
    /\ lock = <<>>
    /\ stack = <<>>
    /\ processed = <<>>
    /\ frames = <<>>
    /\ tree = Undefined

InitTree ==
    /\ pc = "start"
    /\ lock \in LockFiles
    /\ stack = <<>>
    /\ processed = <<>>
    /\ frames = <<>>
    /\ tree = Undefined
    /\ IdleRelock
    /\ IdleFlat

NextTree ==
    \/ OneRoot
    \/ OneCircular
    \/ OneProcessed
    \/ OneExpand
    \/ OneReturn
    \/ OneFinish

SpecTree == InitTree /\ [][NextTree]_vars

----------------------------------------------------------------------------
(* Reading a canonical tree *)

RECURSIVE NodesOf(_)
NodesOf(node) ==
    {node} \cup UNION {NodesOf(node.dependencies[i]) : i \in 1..Len(node.dependencies)}

\* dependencies has exactly one child per key of requires, named by it, in order
OnePerKey(node) ==
    /\ Len(node.dependencies) = Len(node.requires)
    /\ \A i \in 1..Len(node.requires) : node.dependencies[i].name = node.requires[i][1]

\* some prefix of path, the empty one included, has a lock entry for name
Resolvable(path, name) ==
    \E i \in 0..Len(path) : Append(SubSeq(path, 1, i), name) \in lockPaths

\* the lock entries whose requires were expanded so far
Expanded == DOMAIN processed \cup {frames[i].lockOnePath : i \in 1..Len(frames)}

UnresolvableMet ==
    \E p \in Expanded : \E i \in 1..Len(lock[p].requires) :
        ~Resolvable(p, lock[p].requires[i][1])

\* the resolution graph of the lock file: p requires a name that getLockPath
\* resolves to q (to '' when no entry is found)
ResolvesTo(p, q) ==
    \E i \in 1..Len(lock[p].requires) : getLockPath(lock, p, lock[p].requires[i][1]) = q

RECURSIVE ReachIn(_, _, _)
ReachIn(p, q, n) ==
    IF n = 0 THEN FALSE
    ELSE ResolvesTo(p, q) \/ \E r \in lockPaths : ResolvesTo(p, r) /\ ReachIn(r, q, n - 1)

OnCycle(p) == ReachIn(p, p, Cardinality(lockPaths))

\* the lock entry a node was built from (the input versions name their entry)
EntryOf(node) == Tail(node.version)

----------------------------------------------------------------------------
(* C5 *)

\* C5: if an expanded node requires a name that no prefix of its lock-path
\* resolves, tree construction aborts and no tree is returned.
C5_UnresolvableAborts == UnresolvableMet => (pc # "done" /\ tree = Undefined)

----------------------------------------------------------------------------
(* C6 *)

NoDuplicateOnStack ==
    \A i, j \in 1..Len(stack) : stack[i] = stack[j] => i = j

\* a step taken at an edge whose resolved lock-path is on the stack pushes a
\* node with an empty dependency list and expands nothing
CircularEdgeCut ==
    (AtKey /\ Includes(stack, curLockOnePath)) =>
        /\ stack' = stack
        /\ Len(frames') = Len(frames)
        /\ frames'[Len(frames)].idx = Top.idx + 1
        /\ Last(frames'[Len(frames)].dependencies).name = curName
        /\ Last(frames'[Len(frames)].dependencies).dependencies = <<>>

\* what is left to do: an entry not yet expanded costs its expansion, one step
\* per key and its return; an activation costs its remaining keys and its return
RECURSIVE SumCost(_)
SumCost(S) ==
    IF S = {} THEN 0
    ELSE LET e == CHOOSE x \in S : TRUE
         IN  Len(lock[e].requires) + 2 + SumCost(S \ {e})

RECURSIVE SumLeft(_)
SumLeft(n) ==
    IF n = 0 THEN 0
    ELSE Len(lock[frames[n].lockNode].requires) + 2 - frames[n].idx + SumLeft(n - 1)

Rank == SumCost(lockPaths \ (DOMAIN processed \cup Range(stack))) + SumLeft(Len(frames))

\* some branch of the run is open (each action is its guard and assignments)
CanStep ==
    CanRoot \/ CanCircular \/ CanProcessed \/ CanExpand \/ CanReturn \/ CanFinish

\* C6: for every lock file, cyclic ones included, generateDependencyTree
\* terminates (a run that has not returned has a step to take, and every step
\* lowers Rank, a natural number), the expansion stack never holds a
\* lock-path twice, and an edge whose resolved lock-path is on the stack gets
\* an empty dependency list instead of being expanded.
C6_CycleSafety ==
    /\ []NoDuplicateOnStack
    /\ [][CircularEdgeCut]_vars
    /\ [](pc # "done" => CanStep)
    /\ [][Rank' < Rank]_vars

\* a finished run over a lock file where a and b require each other, with a
\* truncated node in the tree
C6_Witness ==
    /\ pc = "done"
    /\ <<"a">> \in lockPaths /\ <<"b">> \in lockPaths
    /\ ResolvesTo(<<>>, <<"a">>) /\ ResolvesTo(<<"a">>, <<"b">>) /\ ResolvesTo(<<"b">>, <<"a">>)
    /\ \E n \in NodesOf(tree) : n.name = "a" /\ n.requires # <<>> /\ n.dependencies = <<>>

----------------------------------------------------------------------------
(* C10 *)

\* C10: every node of the returned tree, nodes on requirement cycles
\* included, has exactly one child per key of its requires, named by that key,
\* in the order of requires.
C10_OnePerKeyEverywhere ==
    pc = "done" => \A n \in NodesOf(tree) : OnePerKey(n)

\* C10 as amended: the root has one child per key; every other node has one
\* child per key, named by it and in order, or has an empty dependency list,
\* and then its lock entry lies on a cycle of the resolution graph.
C10_OnePerKeyOrCut ==
    pc = "done" =>
        /\ OnePerKey(tree)
        /\ \A n \in NodesOf(tree) \ {tree} :
              \/ OnePerKey(n)
              \/ n.dependencies = <<>> /\ OnCycle(EntryOf(n))

\* a finished tree with a node expanded in full (two children in the order of
\* its requires) and a node cut on a cycle
C10_Witness ==
    /\ pc = "done"
    /\ \E n \in NodesOf(tree) \ {tree} : Len(n.requires) = 2 /\ OnePerKey(n)
    /\ \E n \in NodesOf(tree) \ {tree} : n.requires # <<>> /\ n.dependencies = <<>>

----------------------------------------------------------------------------
(* isProjectModule *)

\* undefined where a string is expected; no string, since the elements of a
\* string are single characters
UndefinedStr == <<"undefined">>

\* the characters of a module name
Chars(name) ==
    CASE name = "" -> <<>>
      [] name = "a" -> <<"a">>
      [] name = "b" -> <<"b">>
      [] name = "c" -> <<"c">>
      [] name = "x" -> <<"x">>

\* str.search(re) for a pattern of literal characters: the index, from 0, of
\* the first occurrence, -1 when there is none
Search(str, re) ==
    LET hits == {i \in 0..(Len(str) - Len(re)) : SubSeq(str, i + 1, i + Len(re)) = re}
    IN  IF hits = {} THEN -1 ELSE CHOOSE i \in hits : \A j \in hits : i <= j

\* only the root's empty name is taken for a project module
isProjectModuleRootOnly(moduleName) == moduleName = ""

isProjectModule(moduleName) ==
    \/ moduleName = ""
    \/ \E idx \in 1..Len(projectFiles) : Search(Chars(moduleName), projectFiles[idx]) # -1

----------------------------------------------------------------------------
(* relockTree *)

TypeError == [error |-> "TypeError"]

\* dependencies.find(d => d.name === name) as an index: 0 when nothing is
\* found, -1 when the callback reads .name of an undefined element
RECURSIVE findIndex(_, _, _)
findIndex(dependencies, name, i) ==
    IF i > Len(dependencies) THEN 0
    ELSE IF dependencies[i] = Undefined THEN -1
    ELSE IF dependencies[i].name = name THEN i
    ELSE findIndex(dependencies, name, i + 1)

relockFind(dependencies, name) ==
    LET i == findIndex(dependencies, name, 1)
    IN  IF i > 0 THEN dependencies[i] ELSE IF i = 0 THEN Undefined ELSE TypeError

\* getNode(tree, path) as the indices it follows; it ends in 0 where a part
\* is not found and in -1 where find throws
RECURSIVE relockGetPos(_, _)
relockGetPos(node, searchPath) ==
    IF searchPath = <<>> THEN <<>>
    ELSE LET i == findIndex(node.dependencies, Head(searchPath), 1)
         IN  IF i <= 0 THEN <<i>>
             ELSE <<i>> \o relockGetPos(node.dependencies[i], Tail(searchPath))

Failed(pos) == pos # <<>> /\ Last(pos) <= 0

RECURSIVE NodeAt(_, _)
NodeAt(node, pos) ==
    IF pos = <<>> THEN node ELSE NodeAt(node.dependencies[Head(pos)], Tail(pos))

relockGetNode(treeRoot, path) ==
    LET pos == relockGetPos(treeRoot, path)
    IN  IF ~Failed(pos) THEN NodeAt(treeRoot, pos)
        ELSE IF Last(pos) = 0 THEN Undefined ELSE TypeError

\* node.dependencies.push(child) for the node at pos
RECURSIVE PushAt(_, _, _)
PushAt(node, pos, child) ==
    IF pos = <<>> THEN [node EXCEPT !.dependencies = Append(@, child)]
    ELSE [node EXCEPT !.dependencies[Head(pos)] = PushAt(@, Tail(pos), child)]

\* str.replace(ch, ''): the first occurrence of ch is removed
RECURSIVE ReplaceFirst(_, _)
ReplaceFirst(str, ch) ==
    IF str = <<>> THEN <<>>
    ELSE IF Head(str) = ch THEN Tail(str)
    ELSE <<Head(str)>> \o ReplaceFirst(Tail(str), ch)

cleanSemVer(semVer) == ReplaceFirst(ReplaceFirst(semVer, "~"), "^")

\* str.split('.')
RECURSIVE SplitDot(_, _)
SplitDot(str, part) ==
    IF str = <<>> THEN <<part>>
    ELSE IF Head(str) = "." THEN <<part>> \o SplitDot(Tail(str), <<>>)
    ELSE SplitDot(Tail(str), Append(part, Head(str)))

\* array[i], from 0
At(array, i) == IF i + 1 <= Len(array) THEN array[i + 1] ELSE UndefinedStr

\* only the major component is compared
notPatchMajorOnly(curRange, prevRange) ==
    At(SplitDot(cleanSemVer(curRange), <<>>), 0) # At(SplitDot(cleanSemVer(prevRange), <<>>), 0)

notPatch(curRange, prevRange) ==
    LET curVer == SplitDot(cleanSemVer(curRange), <<>>)
        prevVer == SplitDot(cleanSemVer(prevRange), <<>>)
    IN  At(curVer, 0) # At(prevVer, 0) \/ At(curVer, 1) # At(prevVer, 1)

\* requires[key] of a tree node
GetRange(requires, key) ==
    IF \E i \in 1..Len(requires) : requires[i][1] = key
    THEN requires[CHOOSE i \in 1..Len(requires) : requires[i][1] = key][2]
    ELSE UndefinedStr

\* !prevVer
Falsy(str) == str = UndefinedStr \/ str = <<>>

\* the key the top activation of one() is at
RTop == rframes[Len(rframes)]
RCurNode == relockGetNode(curTree, RTop.path)
RPrevNode == relockGetNode(prevTree, RTop.path)
AtRelockKey == pc = "relock" /\ rframes # <<>> /\ RTop.idx <= Len(RCurNode.requires)
RKey == RCurNode.requires[RTop.idx][1]
RCurVer == RCurNode.requires[RTop.idx][2]
RPrevVer == GetRange(RPrevNode.requires, RKey)

\* relockNode.dependencies.push(dependencyNode), and on to the next key
PushRelock(dependencyNode) ==
    /\ relockTree' = PushAt(relockTree, RTop.pos, dependencyNode)
    /\ rframes' = [rframes EXCEPT ![Len(rframes)].idx = @ + 1]
    /\ UNCHANGED <<pc, projectFiles, prevTree, curTree, compared>>

\* one(path) up to its loop: the copy of the current node, with an empty
\* dependency list, is added to the relocked tree.  It throws when the
\* current tree has no node at path (JSON.parse of undefined), when the
\* parent is not found in the relocked tree, and at the first key when the
\* previous tree has no node at path.
EnterOne(path, callers) ==
    LET curNode == relockGetNode(curTree, path)
        prevNode == relockGetNode(prevTree, path)
        parentPos == relockGetPos(relockTree, Front(path))
        pos == IF path = <<>> THEN <<>>
               ELSE Append(parentPos, Len(NodeAt(relockTree, parentPos).dependencies) + 1)
    IN  IF \/ curNode = Undefined
           \/ path # <<>> /\ Failed(parentPos)
           \/ curNode.requires # <<>> /\ prevNode = Undefined
        THEN /\ pc' = "relockError"
             /\ UNCHANGED <<projectFiles, prevTree, curTree, relockTree, rframes, compared>>
        ELSE /\ pc' = "relock"
             /\ relockTree' = IF path = <<>> THEN [curNode EXCEPT !.dependencies = <<>>]
                              ELSE PushAt(relockTree, parentPos,
                                          [curNode EXCEPT !.dependencies = <<>>])
             /\ rframes' = Append(callers, [path |-> path, pos |-> pos, idx |-> 1])
             /\ compared' = compared \cup {path}
             /\ UNCHANGED <<projectFiles, prevTree, curTree>>

\* relockTree(prevTree, curTree) calls one([])
RelockRoot ==
    /\ pc = "relockStart"
    /\ EnterOne(<<>>, <<>>)
    /\ UNCHANGED <<treeVars, flatVars>>

\* the branch of line 341: the previous node does not require the key
TakeNew ==
    /\ AtRelockKey
    /\ Falsy(RPrevVer)
    /\ PushRelock(relockFind(RCurNode.dependencies, RKey))
    /\ UNCHANGED <<treeVars, flatVars>>

\* the branch of line 344: more than a patch change of the range
TakeChanged ==
    /\ AtRelockKey
    /\ ~Falsy(RPrevVer)
    /\ notPatch(RCurVer, RPrevVer)
    /\ PushRelock(relockFind(RCurNode.dependencies, RKey))
    /\ UNCHANGED <<treeVars, flatVars>>

\* the recursion replaced by the previous subtree taken whole
RecurseKeepsPrevious ==
    /\ AtRelockKey
    /\ ~Falsy(RPrevVer)
    /\ ~notPatch(RCurVer, RPrevVer)
    /\ RPrevVer # RCurVer \/ isProjectModule(RKey)
    /\ PushRelock(relockFind(RPrevNode.dependencies, RKey))
    /\ UNCHANGED <<treeVars, flatVars>>

\* the branch of line 347: the range string changed or the key is a project
\* module; one(newPath) is called
Recurse ==
    /\ AtRelockKey
    /\ ~Falsy(RPrevVer)
    /\ ~notPatch(RCurVer, RPrevVer)
    /\ RPrevVer # RCurVer \/ isProjectModule(RKey)
    /\ EnterOne(Append(RTop.path, RKey),
                [rframes EXCEPT ![Len(rframes)].idx = @ + 1])
    /\ UNCHANGED <<treeVars, flatVars>>

\* the branch of line 351: revert to the previous subtree
KeepPrevious ==
    /\ AtRelockKey
    /\ ~Falsy(RPrevVer)
    /\ ~notPatch(RCurVer, RPrevVer)
    /\ ~(RPrevVer # RCurVer \/ isProjectModule(RKey))
    /\ PushRelock(relockFind(RPrevNode.dependencies, RKey))
    /\ UNCHANGED <<treeVars, flatVars>>

\* a nested one() has gone through its keys and returns
RelockReturn ==
    /\ pc = "relock"
    /\ Len(rframes) > 1
    /\ RTop.idx > Len(RCurNode.requires)
    /\ rframes' = Front(rframes)
    /\ UNCHANGED <<pc, treeVars, flatVars, projectFiles, prevTree, curTree, relockTree, compared>>

\* one([]) returns and relockTree returns the relocked tree
RelockFinish ==
    /\ pc = "relock"
    /\ Len(rframes) = 1
    /\ RTop.idx > Len(RCurNode.requires)
    /\ rframes' = <<>>
    /\ pc' = "relockDone"
    /\ UNCHANGED <<treeVars, flatVars, projectFiles, prevTree, curTree, relockTree, compared>>

----------------------------------------------------------------------------
(* Input trees of relockTree: the canonical trees of a previous and a current
   lock file with the entries a and b.  Each requirement edge (of the root, of
   a, of b) is of a kind that tells how it changed between the two. *)

\* largest number of requirement edges of the two lock files together
MaxEdges == 2

Edges == {<<>>, <<"a">>, <<"b">>} \X {"a", "b"}
ChangeKinds ==
    {"none", "same", "patch", "tilde", "minor", "short", "any", "new", "removed"}

PrevRange(kind) ==
    CASE kind \in {"same", "patch", "tilde", "minor", "removed"} -> R120
      [] kind = "short" -> R1
      [] kind = "any" -> Empty
      [] OTHER -> UndefinedStr

CurRange(kind) ==
    CASE kind = "same" -> R120
      [] kind = "short" -> R120
      [] kind = "any" -> Empty
      [] kind = "new" -> R120
      [] kind = "patch" -> R125
      [] kind = "tilde" -> T120
      [] kind = "minor" -> R130
      [] OTHER -> UndefinedStr

RequiresOf(from, range(_)) ==
    LET has(n) == range(<<from, n>>) # UndefinedStr
    IN  (IF has("a") THEN <<<<"a", range(<<from, "a">>)>>>> ELSE <<>>)
        \o (IF has("b") THEN <<<<"b", range(<<from, "b">>)>>>> ELSE <<>>)

LockOf(version, range(_)) ==
    [p \in {<<>>, <<"a">>, <<"b">>} |->
        [version |-> IF p = <<>> THEN "1.0.0" ELSE version,
         requires |-> RequiresOf(p, range)]]

ProjectFilesChoices == {<<>>, <<<<"b">>>>, <<<<"a">>, <<"b">>>>}

InitRelock ==
    /\ pc = "relockStart"
    /\ \E kind \in [Edges -> ChangeKinds] :
          /\ Cardinality({e \in Edges : kind[e] # "none"}) <= MaxEdges
          /\ LET prevRange(e) == PrevRange(kind[e])
                 curRange(e) == CurRange(kind[e])
             IN  /\ prevTree = generateDependencyTree(LockOf("1.2.3", prevRange))
                 /\ curTree = generateDependencyTree(LockOf("1.2.5", curRange))
    /\ projectFiles \in ProjectFilesChoices
    /\ relockTree = Undefined
    /\ rframes = <<>>
    /\ compared = {}
    /\ IdleTree
    /\ IdleFlat

NextRelock ==
    \/ RelockRoot
    \/ TakeNew
    \/ TakeChanged
    \/ Recurse
    \/ KeepPrevious
    \/ RelockReturn
    \/ RelockFinish

SpecRelock == InitRelock /\ [][NextRelock]_vars

----------------------------------------------------------------------------
(* Reading the trees of relockTree *)

\* the child of node named name; Undefined when node has none (a truncated
\* node, or a dependency list holding undefined)
ChildNamed(node, name) ==
    LET at == {i \in 1..Len(node.dependencies) :
                  /\ node.dependencies[i] # Undefined
                  /\ node.dependencies[i].name = name}
    IN  IF at = {} THEN Undefined
        ELSE node.dependencies[CHOOSE i \in at : \A j \in at : i <= j]

\* the node a path of names leads to
RECURSIVE NodeOn(_, _)
NodeOn(node, path) ==
    IF path = <<>> \/ node = Undefined THEN node
    ELSE NodeOn(ChildNamed(node, Head(path)), Tail(path))

\* name matches a configured project-module pattern
Configured(name) ==
    \E idx \in 1..Len(projectFiles) :
        \E i \in 1..Len(Chars(name)) : \E j \in i..Len(Chars(name)) :
            SubSeq(Chars(name), i, j) = projectFiles[idx]

\* a range without its leading ~ or ^, split at the dots
Components(range) ==
    SplitDot(IF range # <<>> /\ Head(range) \in {"~", "^"} THEN Tail(range) ELSE range, <<>>)

\* the major or the minor component of two ranges differs
MajorMinorDiffer(curRange, prevRange) ==
    \/ At(Components(curRange), 0) # At(Components(prevRange), 0)
    \/ At(Components(curRange), 1) # At(Components(prevRange), 1)

\* the indices of the keys of the compared node at path that one(path) has
\* gone through: those before the index of its activation, all of them once it
\* has returned
Settled(path) ==
    LET on == {f \in 1..Len(rframes) : rframes[f].path = path}
    IN  IF on = {} THEN 1..Len(NodeOn(curTree, path).requires)
        ELSE 1..((rframes[CHOOSE f \in on : TRUE].idx) - 1)

\* the keys gone through at the compared paths, each with its path
SettledKeys == UNION {{<<path, i>> : i \in Settled(path)} : path \in compared}

KeyOf(pk) == NodeOn(curTree, pk[1]).requires[pk[2]][1]
CurRangeOf(pk) == NodeOn(curTree, pk[1]).requires[pk[2]][2]
PrevRangeOf(pk) == GetRange(NodeOn(prevTree, pk[1]).requires, KeyOf(pk))
CurChild(pk) == ChildNamed(NodeOn(curTree, pk[1]), KeyOf(pk))
PrevChild(pk) == ChildNamed(NodeOn(prevTree, pk[1]), KeyOf(pk))
OutChild(pk) == ChildNamed(NodeOn(relockTree, pk[1]), KeyOf(pk))

\* the keys of the root, once relockTree has returned
RootKeys == {pk \in SettledKeys : pc = "relockDone" /\ pk[1] = <<>>}

\* a node without its dependency list
Bare(node) == [node EXCEPT !.dependencies = <<>>]

\* the range of a key changed, and by no more than its patch component
PatchOnly(pk) ==
    /\ PrevRangeOf(pk) # UndefinedStr
    /\ PrevRangeOf(pk) # CurRangeOf(pk)
    /\ ~MajorMinorDiffer(CurRangeOf(pk), PrevRangeOf(pk))

\* one() was called for the child of a key: the relocked child is a copy of
\* the current node and its own keys are compared with the previous child's
Recursed(pk) ==
    /\ Append(pk[1], KeyOf(pk)) \in compared
    /\ OutChild(pk) # Undefined
    /\ Bare(OutChild(pk)) = Bare(CurChild(pk))

----------------------------------------------------------------------------
(* C1 *)

\* C1: at the root and at every node one() recursed into, a key the previous
\* node requires with the identical range string and that is no project
\* module has, in the relocked node, the previous tree's child of that name
\* with its whole subtree, whatever the current tree resolved it to.
C1_IdenticalRangeKeepsPrevious ==
    \A pk \in SettledKeys :
        (PrevRangeOf(pk) = CurRangeOf(pk) /\ ~Configured(KeyOf(pk)))
            => OutChild(pk) = PrevChild(pk)

----------------------------------------------------------------------------
(* C2 *)

\* C2: at a compared path, a key required by the previous and the current
\* node whose ranges differ in the major or minor component (after a leading
\* ~ or ^ is stripped) has, in the relocked node, the current tree's child of
\* that name in full, nothing below it taken from the previous tree.
C2_MinorChangeTakesCurrent ==
    \A pk \in SettledKeys :
        (/\ PrevRangeOf(pk) # UndefinedStr
         /\ MajorMinorDiffer(CurRangeOf(pk), PrevRangeOf(pk)))
            => OutChild(pk) = CurChild(pk)

\* a returned relocked tree whose root took, for a key with a minor change,
\* the current child, which has a child of its own that the previous tree
\* also has, at the previous version
C2_Witness ==
    /\ pc = "relockDone"
    /\ \E pk \in RootKeys :
          /\ PrevRangeOf(pk) # UndefinedStr
          /\ MajorMinorDiffer(CurRangeOf(pk), PrevRangeOf(pk))
          /\ OutChild(pk) # Undefined
          /\ OutChild(pk).version = "1.2.5"
          /\ OutChild(pk).dependencies # <<>>
          /\ PrevChild(pk) # Undefined
          /\ PrevChild(pk).dependencies # <<>>

----------------------------------------------------------------------------
(* C3 *)

\* C3 as stated: a root key whose range changed at patch level only, resolved
\* to 1.2.3 by the previous tree and to 1.2.5 by the current tree, has in the
\* relocked tree the previous child unchanged (1.2.3 with its descendants).
C3_PatchKeepsPrevious ==
    \A pk \in RootKeys :
        (/\ PatchOnly(pk)
         /\ PrevChild(pk) # Undefined /\ PrevChild(pk).version = "1.2.3"
         /\ CurChild(pk) # Undefined /\ CurChild(pk).version = "1.2.5")
            => OutChild(pk) = PrevChild(pk)

\* C3 amended: such a key is recursed into.  The relocked child is a copy of
\* the current child (1.2.5, the current signature and requires) and its
\* dependency list is decided key by key against the previous child: a key of
\* identical, non-empty range that is no project module keeps the previous
\* grandchild; a key that is new, whose previous range is the empty string or
\* whose range differs in major or minor takes the current grandchild.
C3_PatchRecurses ==
    \A pk \in RootKeys :
        (/\ PatchOnly(pk)
         /\ PrevChild(pk) # Undefined /\ PrevChild(pk).version = "1.2.3"
         /\ CurChild(pk) # Undefined /\ CurChild(pk).version = "1.2.5")
            => /\ Recursed(pk)
               /\ OutChild(pk).version = "1.2.5"
               /\ \A i \in 1..Len(CurChild(pk).requires) :
                     LET k == CurChild(pk).requires[i][1]
                         curRange == CurChild(pk).requires[i][2]
                         prevRange == GetRange(PrevChild(pk).requires, k)
                     IN  /\ (prevRange = curRange /\ prevRange # Empty /\ ~Configured(k))
                               => ChildNamed(OutChild(pk), k) = ChildNamed(PrevChild(pk), k)
                         /\ (prevRange \in {UndefinedStr, Empty} \/ MajorMinorDiffer(curRange, prevRange))
                               => ChildNamed(OutChild(pk), k) = ChildNamed(CurChild(pk), k)

\* a returned relocked tree with a patch-changed root key whose relocked
\* child, at 1.2.5, kept a grandchild of the previous tree at 1.2.3
C3_Witness ==
    /\ pc = "relockDone"
    /\ \E pk \in RootKeys :
          /\ PatchOnly(pk)
          /\ CurRangeOf(pk) = R125
          /\ PrevChild(pk) # Undefined /\ PrevChild(pk).version = "1.2.3"
          /\ OutChild(pk) # Undefined /\ OutChild(pk).version = "1.2.5"
          /\ \E i \in 1..Len(OutChild(pk).dependencies) :
                /\ OutChild(pk).dependencies[i] # Undefined
                /\ OutChild(pk).dependencies[i].version = "1.2.3"

----------------------------------------------------------------------------
(* C4 *)

\* C4 as stated: every key met at a compared node that matches a configured
\* project-module pattern is recursed into, whether its range is new,
\* unchanged, patch-changed or changed in minor or major.
C4_ProjectModuleAlwaysRecursed ==
    \A pk \in SettledKeys : Configured(KeyOf(pk)) => Recursed(pk)

\* C4 amended: a key matching a configured pattern is recursed into when the
\* previous node requires it too, with a range that is not the empty string
\* and does not differ from the current one in major or minor; it is never
\* taken whole from the previous tree.  Otherwise (new, an empty previous
\* range, a major or minor change) it is taken whole from the current tree
\* and not recursed into.
C4_ProjectModuleRecursedWhenStable ==
    \A pk \in SettledKeys :
        Configured(KeyOf(pk)) =>
            IF /\ PrevRangeOf(pk) \notin {UndefinedStr, Empty}
               /\ ~MajorMinorDiffer(CurRangeOf(pk), PrevRangeOf(pk))
            THEN Recursed(pk)
            ELSE /\ OutChild(pk) = CurChild(pk)
                 /\ Append(pk[1], KeyOf(pk)) \notin compared

\* a returned relocked tree with a project module of identical range that
\* was recursed into, the previous and the current child being different
C4_Witness ==
    /\ pc = "relockDone"
    /\ \E pk \in SettledKeys :
          /\ Configured(KeyOf(pk))
          /\ PrevRangeOf(pk) = CurRangeOf(pk)
          /\ Recursed(pk)
          /\ PrevChild(pk) # Undefined
          /\ PrevChild(pk).version = "1.2.3"
          /\ OutChild(pk).version = "1.2.5"

----------------------------------------------------------------------------
(* flattenTree *)

\* an object without keys
EmptyMap == [n \in {} |-> Undefined]

\* dependency.name + '|' + dependency.version + '|' + dependency.signature;
\* variant.split('|') gives the name and the version back
Variant(dependency) == <<dependency.name, dependency.version, dependency.signature>>

\* the index of the module of a variant in the list, 0 when moduleIndex has
\* no such key
IndexOfVariant(mods, variant) ==
    IF \E i \in 1..Len(mods) : mods[i].variant = variant
    THEN CHOOSE i \in 1..Len(mods) : mods[i].variant = variant
    ELSE 0

Min(m, n) == IF m < n THEN m ELSE n

\* buildIndexes(node, path): the modules in the order they are first met, each
\* with its least depth and its paths in the order of the walk
RECURSIVE buildIndexes(_, _, _), eachDependency(_, _, _, _)
buildIndexes(node, path, mods) == eachDependency(node, path, 1, mods)
eachDependency(node, path, i, mods) ==
    IF i > Len(node.dependencies) THEN mods
    ELSE LET dependency == node.dependencies[i]
             newPath == Append(path, dependency.name)
             name == Variant(dependency)
             at == IndexOfVariant(mods, name)
             module == IF at = 0
                       THEN [name |-> dependency.name,
                             version |-> dependency.version,
                             signature |-> dependency.signature,
                             variant |-> name,
                             depth |-> Len(path),
                             paths |-> <<>>]
                       ELSE mods[at]
             indexed == [module EXCEPT !.depth = Min(@, Len(path)),
                                       !.paths = Append(@, newPath)]
             pushed == IF at = 0 THEN Append(mods, indexed)
                       ELSE [mods EXCEPT ![at] = indexed]
         IN  eachDependency(node, path, i + 1, buildIndexes(dependency, newPath, pushed))

\* array.join('|') as the characters of the string
RECURSIVE Join(_)
Join(array) ==
    IF array = <<>> THEN <<>>
    ELSE IF Len(array) = 1 THEN Chars(array[1])
    ELSE Chars(array[1]) \o <<"|">> \o Join(Tail(array))

\* the UTF-16 code unit of a character
CharCode(ch) ==
    CASE ch = "a" -> 97
      [] ch = "b" -> 98
      [] ch = "c" -> 99
      [] ch = "x" -> 120
      [] ch = "|" -> 124

\* s < t for strings
RECURSIVE StrLess(_, _)
StrLess(s, t) ==
    IF t = <<>> THEN FALSE
    ELSE IF s = <<>> THEN TRUE
    ELSE IF Head(s) # Head(t) THEN CharCode(Head(s)) < CharCode(Head(t))
    ELSE StrLess(Tail(s), Tail(t))

\* compare(a, b) of sortModules
compare(a, b) ==
    LET aPath == Join(Append(Split(a.paths[1]), a.name))
        bPath == Join(Append(Split(b.paths[1]), b.name))
    IN  IF a.depth - b.depth # 0 THEN a.depth - b.depth
        ELSE IF Len(b.paths) - Len(a.paths) # 0 THEN Len(b.paths) - Len(a.paths)
        ELSE IF StrLess(aPath, bPath) THEN -1
        ELSE IF StrLess(bPath, aPath) THEN 1
        ELSE 0

\* modules.sort(compare): a stable sort
sortModules(mods) ==
    LET before(i, j) == compare(mods[i], mods[j]) < 0
                          \/ (compare(mods[i], mods[j]) = 0 /\ i < j)
        rank(i) == Cardinality({j \in 1..Len(mods) : before(j, i)})
    IN  [k \in 1..Len(mods) |-> mods[CHOOSE i \in 1..Len(mods) : rank(i) = k - 1]]

\* the placement node at a placement path
RECURSIVE FlatAt(_, _)
FlatAt(node, path) ==
    IF path = <<>> THEN node ELSE FlatAt(node.dependencies[Head(path)], Tail(path))

\* node.dependencies[name], undefined when there is no such key
Slot(node, name) ==
    IF name \in DOMAIN node.dependencies THEN node.dependencies[name] ELSE Undefined

\* insert(node, name, version, variant) for the node at a placement path
RECURSIVE insert(_, _, _, _)
insert(node, path, name, variant) ==
    IF path = <<>>
    THEN [node EXCEPT !.dependencies =
             (name :> [name |-> name,
                       version |-> variant[2],
                       variant |-> variant,
                       dependencies |-> EmptyMap]) @@ @]
    ELSE [node EXCEPT !.dependencies[Head(path)] = insert(@, Tail(path), name, variant)]

\* the array is left as it is
shiftKeeps(array) == array

\* searchPath.shift(): what is left of the array

shift(array) == IF array = <<>> THEN <<>> ELSE Tail(array)

\* what searchPath.shift() returns
Shifted(array) == IF array = <<>> THEN "undefined" ELSE Head(array)

\* the call add(path, variant) that is active or is next
AddModule == modules[moduleIdx]
AddPath == AddModule.paths[pathIdx]
AddVariant == AddModule.variant
AddName == AddVariant[1]
AddNode == FlatAt(flatTree, flatNode)
AddFound == Slot(AddNode, AddName)
AddPart == Shifted(flatSearchPath)

\* a variant is never taken for being there already
alreadyThereNever(found, variant) == FALSE

alreadyThere(found, variant) == found # Undefined /\ found.variant = variant

\* buildIndexes(tree, []) and hoist() up to its loop over the modules
FlatBuild ==
    /\ pc = "flatStart"
    /\ modules' = sortModules(buildIndexes(mixed, <<>>, <<>>))
    /\ flatTree' = [mixed EXCEPT !.dependencies = EmptyMap]
    /\ moduleIdx' = 1
    /\ pathIdx' = 1
    /\ pc' = "hoist"
    /\ UNCHANGED <<treeVars, relockVars, mixed, flatSearchPath, flatNode>>

\* hoistOne calls add(path, module.variant) for the next path
CanAddCall == pc = "hoist" /\ moduleIdx <= Len(modules)

AddCall ==
    /\ CanAddCall
    /\ flatSearchPath' = Split(AddPath)
    /\ flatNode' = <<>>
    /\ pc' = "add"
    /\ UNCHANGED <<treeVars, relockVars, mixed, modules, flatTree, moduleIdx, pathIdx>>

\* add returns: on to the next path of the module, or to the next module
AddReturns ==
    /\ pc' = "hoist"
    /\ IF pathIdx < Len(AddModule.paths)
       THEN pathIdx' = pathIdx + 1 /\ moduleIdx' = moduleIdx
       ELSE pathIdx' = 1 /\ moduleIdx' = moduleIdx + 1
    /\ UNCHANGED <<treeVars, relockVars, mixed, modules>>

\* line 429: already there, skip it
CanAlreadyThere == pc = "add" /\ alreadyThere(AddFound, AddVariant)

AddAlreadyThere ==
    /\ CanAlreadyThere
    /\ AddReturns
    /\ UNCHANGED <<flatTree, flatSearchPath, flatNode>>

\* line 435-442: found a conflict and the node has a slot for the next part
\* of the path: continue down the path
CanDescend ==
    /\ pc = "add"
    /\ AddFound # Undefined
    /\ ~alreadyThere(AddFound, AddVariant)
    /\ Slot(AddNode, AddPart) # Undefined

AddDescend ==
    /\ CanDescend
    /\ flatSearchPath' = shift(flatSearchPath)
    /\ flatNode' = Append(flatNode, AddPart)
    /\ UNCHANGED <<pc, treeVars, relockVars, mixed, modules, flatTree, moduleIdx, pathIdx>>

\* line 438-441: found a conflict and there is no where to go: add it
CanNoWhereToGo ==
    /\ pc = "add"
    /\ AddFound # Undefined
    /\ ~alreadyThere(AddFound, AddVariant)
    /\ Slot(AddNode, AddPart) = Undefined

AddNoWhereToGo ==
    /\ CanNoWhereToGo
    /\ flatSearchPath' = shift(flatSearchPath)
    /\ flatTree' = insert(flatTree, flatNode, AddName, AddVariant)
    /\ AddReturns
    /\ UNCHANGED flatNode

\* line 443-446: the slot is free
CanInsert == pc = "add" /\ AddFound = Undefined

AddInsert ==
    /\ CanInsert
    /\ flatTree' = insert(flatTree, flatNode, AddName, AddVariant)
    /\ AddReturns
    /\ UNCHANGED <<flatSearchPath, flatNode>>

\* every module is hoisted: flattenTree returns flatTree
FlatFinish ==
    /\ pc = "hoist"
    /\ moduleIdx > Len(modules)
    /\ pc' = "flatDone"
    /\ UNCHANGED <<treeVars, relockVars, flatVars>>

----------------------------------------------------------------------------
(* Input trees of flattenTree: trees over the names a, b, c and x.  x comes
   in several versions without dependencies; b and c require one of them; a
   further variant of x requires a c; a may require a c and an x; the root may
   require a, b, c and an x without dependencies.  The signature of a node is
   that of its dependency list, as generateDependencyTree computes it. *)

\* number of versions of x without dependencies
MaxVersions == 3

MixedNode(name, version, dependencies) ==
    [name |-> name,
     version |-> version,
     signature |-> getTreeSignature(dependencies),
     dependencies |-> dependencies]

\* the dependency lists with at most one node from each of the sets, in the
\* order of the sets
Lists(first, second) ==
    {<<>>} \cup {<<n>> : n \in first \cup second}
           \cup {<<m, n>> : <<m, n>> \in first \X second}

XNodes == {MixedNode("x", <<"v", v>>, <<>>) : v \in 1..MaxVersions}
BNodes == {MixedNode("b", <<"v", 1>>, <<x>>) : x \in XNodes}
CNodes == {MixedNode("c", <<"v", 1>>, <<x>>) : x \in XNodes}
XOverC == {MixedNode("x", <<"v", 0>>, <<c>>) : c \in CNodes}
ANodes == {MixedNode("a", <<"v", 1>>, deps) : deps \in Lists(CNodes, XNodes \cup XOverC)}
MixedTrees ==
    {[name |-> "", version |-> <<"v", 0>>, signature |-> getTreeSignature(deps),
      dependencies |-> deps] :
        deps \in {ab \o cx : <<ab, cx>> \in Lists(ANodes, BNodes) \X Lists(CNodes, XNodes)}}

InitFlat ==
    /\ pc = "flatStart"
    /\ mixed \in MixedTrees
    /\ modules = <<>>
    /\ flatTree = Undefined
    /\ moduleIdx = 0
    /\ pathIdx = 0
    /\ flatSearchPath = <<>>
    /\ flatNode = <<>>
    /\ IdleTree
    /\ IdleRelock

NextFlat ==
    \/ FlatBuild
    \/ AddCall
    \/ AddAlreadyThere
    \/ AddDescend
    \/ AddNoWhereToGo
    \/ AddInsert
    \/ FlatFinish

SpecFlat == InitFlat /\ [][NextFlat]_vars

----------------------------------------------------------------------------
(* Reading the placement tree *)

\* the placement paths of the nodes of a placement tree
RECURSIVE FlatPaths(_)
FlatPaths(node) ==
    {<<>>} \cup UNION {{<<n>> \o p : p \in FlatPaths(node.dependencies[n])} :
                          n \in DOMAIN node.dependencies}

\* the name slots of a placement tree, each with the variant it holds; the
\* slot for name n of the node at q is the placement path q \o <<n>>
Held(node) == {<<p, FlatAt(node, p).variant>> : p \in FlatPaths(node) \ {<<>>}}

\* the placement nodes that hold a variant
Holders(variant) == {p \in FlatPaths(flatTree) \ {<<>>} : FlatAt(flatTree, p).variant = variant}

Hoisting == pc \in {"hoist", "add", "flatDone"}

\* the placement node a path of the mixed tree resolves to: the root for the
\* root, and for a child named n of a node that resolves to L the slot n of the
\* nearest node on the chain L, parent(L), ..., root that has one; NoEntry
\* when there is none
RECURSIVE Nearest(_, _)
Nearest(at, name) ==
    IF Slot(FlatAt(flatTree, at), name) # Undefined THEN Append(at, name)
    ELSE IF at = <<>> THEN NoEntry
    ELSE Nearest(Front(at), name)

RECURSIVE ResolvesAt(_)
ResolvesAt(path) ==
    IF path = <<>> THEN <<>>
    ELSE LET requirer == ResolvesAt(Front(path))
         IN  IF requirer = NoEntry THEN NoEntry ELSE Nearest(requirer, Last(path))

----------------------------------------------------------------------------
(* C7 *)

\* C7: no placement step replaces or removes a name slot that holds a
\* variant: a slot that holds variant v holds v after every step of the
\* hoisting.
C7_SlotsKeepTheirVariant ==
    [][(Hoisting /\ Hoisting') => Held(flatTree) \subseteq Held(flatTree')]_vars

----------------------------------------------------------------------------
(* C8 *)

----------------------------------------------------------------------------
(* C9 *)

\* the descents of the active call of add: each one moved the node one
\* placement node down
Descents == Len(flatNode)

\* some branch of the loop body of add can be taken
CanAdd == CanAlreadyThere \/ CanDescend \/ CanNoWhereToGo \/ CanInsert

\* C9: every call of add terminates.  In every state of the loop the descents
\* made and the path segments left add up to the segments of the path, so
\* that the descents never exceed them; every pass through the loop body
\* either returns or descends and consumes one segment; and the loop body can
\* always be passed through.
C9_AddTerminates ==
    /\ [](pc = "add" => Descents + Len(flatSearchPath) = Len(Split(AddPath)))
    /\ [](pc = "add" => CanAdd)
    /\ [][pc = "add" =>
            \/ pc' = "hoist"
            \/ /\ pc' = "add"
               /\ Len(flatSearchPath') = Len(flatSearchPath) - 1
               /\ Len(flatNode') = Descents + 1]_vars

\* add has descended once for every segment of its path, the last time into
\* the node of the conflicting variant itself, and meets a conflict again
\* with nothing left of the path: the root, a and the x below a hold three
\* variants of x other than the one that is added
C9_Witness ==
    /\ pc = "add"
    /\ Descents = Len(Split(AddPath))
    /\ flatSearchPath = <<>>
    /\ AddName = "x"
    /\ CanNoWhereToGo
    /\ Cardinality({FlatAt(flatTree, p).variant :
                        p \in {<<"x">>, <<"a", "x">>, <<"a", "x", "x">>}}
                      \cup {AddVariant}) >= 3

----------------------------------------------------------------------------
(* C11 *)

\* the paths of the nodes of the mixed tree below its root
RECURSIVE MixedPaths(_)
MixedPaths(node) ==
    UNION {{<<node.dependencies[i].name>> \o p :
               p \in {<<>>} \cup MixedPaths(node.dependencies[i])} :
           i \in 1..Len(node.dependencies)}

\* the node of the mixed tree at path resolves, in the placement tree, to a
\* slot that exists and holds its variant
Preserved(path) ==
    /\ ResolvesAt(path) # NoEntry
    /\ FlatAt(flatTree, ResolvesAt(path)).variant = Variant(NodeOn(mixed, path))

\* C11: the returned placement tree preserves every resolution of the mixed
\* tree: with the mixed root located at the placement root and the child
\* named n of a node located at L located at the slot n of the nearest node
\* on the chain L, parent(L), ..., root that has one, the slot of every node
\* of the mixed tree exists and holds that node's variant.
C11_ResolutionPreserved ==
    pc = "flatDone" => \A path \in MixedPaths(mixed) : Preserved(path)

====
